---- MODULE Spec2Model ----
(***************************************************************************)
(* A model of wiki_api.client.WikiApiClient: the response unwrapper, the   *)
(* URL builder, the article encoder and the public query operations, with  *)
(* the remote Pageviews service as the environment that answers each GET.  *)
(*                                                                         *)
(* Text that the code takes apart (date strings, timestamps, path          *)
(* segments, titles) is a sequence: of digits 0..9 for numeric text, of    *)
(* one-character strings for titles.                                       *)
(***************************************************************************)
EXTENDS Integers, Sequences, FiniteSets, TLC

VARIABLES
    config,      \* the fields __init__ sets on the client
    pc,          \* "idle" | "week" (inside the weekly loop) | "done"
    op,          \* the public operation called last
    args,        \* its arguments
    requests,    \* the GETs issued by the current call, in order
    log,         \* the HTTP responses the current call received, in order
    counter,     \* get_most_viewed_for_week: the Counter, in insertion order
    week_start,  \* get_most_viewed_for_week: the loop's moving date
    week_end,    \* get_most_viewed_for_week: the loop's last date
    result,      \* what the current call returned or raised
    prev         \* history: log and result of the call this one repeats

vars == <<config, pc, op, args, requests, log, counter, week_start, week_end,
          result, prev>>

----------------------------------------------------------------------------
(* Bounds of the model *)

\* the largest views value of one item of a response
MaxViews == 2
\* the most entries the seven daily listings of one week hold together
MaxEntries == 2
\* the most items of one per-article series
MaxSeries == 2

----------------------------------------------------------------------------
(* Text *)

RECURSIVE Str(_)
\* str(n) for n >= 0: the decimal digits
Str(n) == IF n < 10 THEN <<n>> ELSE Str(n \div 10) \o <<n % 10>>

RECURSIVE ZFill(_, _)
\* s.zfill(width) for a text without a sign
ZFill(s, width) == IF Len(s) >= width THEN s ELSE ZFill(<<0>> \o s, width)

RECURSIVE Num(_)
\* int(s) of a digit text
Num(s) == IF s = <<>> THEN 0 ELSE 10 * Num(SubSeq(s, 1, Len(s) - 1)) + s[Len(s)]

\* s[:n] of Python, n >= 0
Take(s, n) == SubSeq(s, 1, IF n < Len(s) THEN n ELSE Len(s))

----------------------------------------------------------------------------
(* Calendar: datetime.date / datetime.datetime and calendar.monthrange *)

IsLeap(y) == (y % 4 = 0) /\ ((y % 100 # 0) \/ (y % 400 = 0))

DaysInMonth(y, m) ==
    IF m = 2 THEN (IF IsLeap(y) THEN 29 ELSE 28)
    ELSE IF m \in {4, 6, 9, 11} THEN 30 ELSE 31

\* a datetime value; a date is one at 00:00
DateTime(y, m, d, H, M) == [year |-> y, month |-> m, day |-> d, hour |-> H, minute |-> M]
Date(y, m, d) == DateTime(y, m, d, 0, 0)

\* the range check of the date(year, month, day) constructor
ValidDate(y, m, d) ==
    /\ y \in 1..9999
    /\ m \in 1..12
    /\ d \in 1..DaysInMonth(y, m)

NextDay(t) ==
    IF t.day < DaysInMonth(t.year, t.month) THEN [t EXCEPT !.day = t.day + 1]
    ELSE IF t.month < 12 THEN [t EXCEPT !.month = t.month + 1, !.day = 1]
    ELSE [t EXCEPT !.year = t.year + 1, !.month = 1, !.day = 1]

RECURSIVE AddDays(_, _)
\* t + timedelta(days=n), n >= 0
AddDays(t, n) == IF n = 0 THEN t ELSE AddDays(NextDay(t), n - 1)

RECURSIVE DaysBeforeMonth(_, _)
\* the days of year y before its month m
DaysBeforeMonth(y, m) ==
    IF m = 1 THEN 0 ELSE DaysBeforeMonth(y, m - 1) + DaysInMonth(y, m - 1)

YearDays(y) == IF IsLeap(y) THEN 366 ELSE 365

\* date.fromordinal(j - 1 + date(y, 1, 1).toordinal()) for j in 1..366:
\* day j of year y, running into the next year when y has no day j
FromYearDay(y, j) ==
    IF j > YearDays(y) THEN Date(y + 1, 1, j - YearDays(y))
    ELSE LET m == CHOOSE k \in 1..12 :
                      DaysBeforeMonth(y, k) < j /\ j <= DaysBeforeMonth(y, k) + DaysInMonth(y, k)
         IN  Date(y, m, j - DaysBeforeMonth(y, m))

\* a <= b on datetimes
DateLeq(a, b) ==
    LET ka == <<a.year, a.month, a.day, a.hour, a.minute>>
        kb == <<b.year, b.month, b.day, b.hour, b.minute>>
    IN  \/ ka = kb
        \/ \E i \in 1..5 : ka[i] < kb[i] /\ \A j \in 1..(i - 1) : ka[j] = kb[j]

\* t.strftime('%Y%m%d')
StrftimeYmd(t) == ZFill(Str(t.year), 4) \o ZFill(Str(t.month), 2) \o ZFill(Str(t.day), 2)

----------------------------------------------------------------------------
(* datetime.strptime: the format's directives as the regular expressions   *)
(* of _strptime.TimeRE, matched left to right, alternatives in the order   *)
(* written, backtracking into an earlier directive when a later one fails. *)
(* An alternative <<n, lo, hi>> reads n digits whose number is in lo..hi.  *)

\* %Y: \d\d\d\d
DirY == << <<4, 0, 9999>> >>
\* %m: 1[0-2]|0[1-9]|[1-9]
Dirm == << <<2, 10, 12>>, <<2, 1, 9>>, <<1, 1, 9>> >>
\* %d: 3[0-1]|[1-2]\d|0[1-9]|[1-9]
Dird == << <<2, 30, 31>>, <<2, 10, 29>>, <<2, 1, 9>>, <<1, 1, 9>> >>
\* %j: 36[0-6]|3[0-5]\d|[1-2]\d\d|0[1-9]\d|00[1-9]|[1-9]\d|0[1-9]|[1-9]
Dirj == << <<3, 360, 366>>, <<3, 300, 359>>, <<3, 100, 299>>, <<3, 10, 99>>,
           <<3, 1, 9>>, <<2, 10, 99>>, <<2, 1, 9>>, <<1, 1, 9>> >>
\* %H: 2[0-3]|[0-1]\d|\d
DirH == << <<2, 20, 23>>, <<2, 0, 19>>, <<1, 0, 9>> >>
\* %M: [0-5]\d|\d
DirM == << <<2, 0, 59>>, <<1, 0, 9>> >>

NoMatch == [ok |-> FALSE, vals |-> <<>>, end |-> 0]

AltFits(alt, s, pos) ==
    /\ pos + alt[1] - 1 <= Len(s)
    /\ Num(SubSeq(s, pos, pos + alt[1] - 1)) \in alt[2]..alt[3]

RECURSIVE ReMatch(_, _, _), ReAlts(_, _, _, _)
\* re.match of the directives fmt on s from position pos: the first match in
\* priority order, with the position after it
ReMatch(fmt, s, pos) ==
    IF fmt = <<>> THEN [ok |-> TRUE, vals |-> <<>>, end |-> pos]
    ELSE ReAlts(fmt, s, pos, 1)
ReAlts(fmt, s, pos, i) ==
    IF i > Len(fmt[1]) THEN NoMatch
    ELSE LET alt == fmt[1][i] IN
         IF ~AltFits(alt, s, pos) THEN ReAlts(fmt, s, pos, i + 1)
         ELSE LET r == ReMatch(Tail(fmt), s, pos + alt[1]) IN
              IF r.ok
              THEN [ok |-> TRUE,
                    vals |-> <<Num(SubSeq(s, pos, pos + alt[1] - 1))>> \o r.vals,
                    end |-> r.end]
              ELSE ReAlts(fmt, s, pos, i + 1)

\* a strptime that raised ValueError
BadTime == [ok |-> FALSE, value |-> Date(1, 1, 1)]

\* datetime.strptime(s, '%Y%m%d'): ValueError when the text does not match,
\* when text remains after the match, or when the date does not exist
StrptimeYmd(s) ==
    LET r == ReMatch(<<DirY, Dirm, Dird>>, s, 1) IN
    IF ~r.ok \/ r.end # Len(s) + 1 THEN BadTime
    ELSE IF ~ValidDate(r.vals[1], r.vals[2], r.vals[3]) THEN BadTime
    ELSE [ok |-> TRUE, value |-> Date(r.vals[1], r.vals[2], r.vals[3])]

\* datetime.strptime(s, '%Y%j%H%M'): the date is day %j of year %Y
StrptimeYjHM(s) ==
    LET r == ReMatch(<<DirY, Dirj, DirH, DirM>>, s, 1) IN
    IF ~r.ok \/ r.end # Len(s) + 1 THEN BadTime
    ELSE IF r.vals[1] \notin 1..9999 THEN BadTime
    ELSE LET t == FromYearDay(r.vals[1], r.vals[2]) IN
         [ok |-> TRUE,
          value |-> DateTime(t.year, t.month, t.day, r.vals[3], r.vals[4])]

\* the service's timestamp of a daily item: YYYYMMDDHH with HH = 00
Timestamp(y, m, d) == ZFill(Str(y), 4) \o ZFill(Str(m), 2) \o ZFill(Str(d), 2) \o <<0, 0>>

----------------------------------------------------------------------------
(* The client's configuration: WikiApiClient.__init__ with its defaults *)

NewClient ==
    [headers |-> [UserAgent |-> "Sarah Duve <info@example.com>"],
     project |-> "en.wikipedia.org",
     access  |-> "all-access",
     agent   |-> "user",
     url     |-> "https://wikimedia.org/api/rest_v1/metrics"]

----------------------------------------------------------------------------
(* _encode_article: spaces to underscores, then quote(article, safe='') *)

\* the characters quote() never escapes, among those the model's titles use
Unreserved == {"A", "B", "C", "_", "-", "."}

\* the escape of a character: % and the hexadecimal digits of its UTF-8 bytes
PercentCode(c) ==
    IF c = "e'" THEN <<"%", "C", "3", "%", "A", "9">>     \* e with acute accent
    ELSE IF c = "/" THEN <<"%", "2", "F">>
    ELSE IF c = " " THEN <<"%", "2", "0">>
    ELSE <<"%", "2", "5">>                                  \* the % sign itself

RECURSIVE Quote(_)
Quote(s) ==
    IF s = <<>> THEN <<>>
    ELSE (IF s[1] \in Unreserved THEN <<s[1]>> ELSE PercentCode(s[1])) \o Quote(Tail(s))

ReplaceSpaces(s) == [i \in 1..Len(s) |-> IF s[i] = " " THEN "_" ELSE s[i]]

EncodeArticle(article) == Quote(ReplaceSpaces(article))

----------------------------------------------------------------------------
(* _get_api_url and the segments the callers append.  A URL is the record  *)
(* of the pieces the f-strings join with "/": the per-article pieces are   *)
(* empty when the builder does not attach them, `date` holds the appended  *)
(* numeric segments and `tail` the appended word.                          *)

GetApiUrl(cfg, endpoint, article, granularity, start, end) ==
    LET full == [base |-> cfg.url, endpoint |-> endpoint, project |-> cfg.project,
                 access |-> cfg.access, agent |-> "", article |-> <<>>,
                 granularity |-> "", start |-> <<>>, end |-> <<>>,
                 date |-> <<>>, tail |-> ""]
    IN  IF article # <<>>
        THEN [full EXCEPT !.agent = cfg.agent, !.article = article,
                          !.granularity = granularity,
                          !.start = StrftimeYmd(start), !.end = StrftimeYmd(end)]
        ELSE full

\* the request session.get(full_url, headers=self._headers) sends
Request(cfg, full_url) == [url |-> full_url, headers |-> cfg.headers]

----------------------------------------------------------------------------
(* HTTP responses.  kind says what the body is: "object" (a JSON object),  *)
(* "array" (JSON, but no object), "text" (no JSON) or "empty".  data is    *)
(* the object of an error body, items the "items" member of a data body.   *)

NoData == [k \in {} |-> ""]

Response(ok, status_code, kind, data, items) ==
    [ok |-> ok, status_code |-> status_code, kind |-> kind, data |-> data, items |-> items]

\* what a call hands back: a returned value or a raised exception
Return(value) ==
    [kind |-> "return", exc |-> "", status_code |-> 0, data |-> NoData, value |-> value]
Raise(exc) ==
    [kind |-> "raise", exc |-> exc, status_code |-> 0, data |-> NoData, value |-> <<>>]
\* error_class(status_code=..., **data) of errors.py
WikiApiError(status_code, data) ==
    [kind |-> "raise", exc |-> "WikiApiError", status_code |-> status_code,
     data |-> data, value |-> <<>>]

\* Python's None
None == [kind |-> "None", items |-> <<>>]
\* response.text as the callers' json.loads will read it
Text(response) == [kind |-> response.kind, items |-> response.items]

\* _return_response: the inner try/except, the raise of the error class and
\* the bare except that prints data["uri"] before it re-raises
ReturnResponse(response) ==
    IF ~response.ok
    THEN IF response.kind \in {"text", "empty"}
         \* response.json() raises ValueError; a Response has no attribute
         \* data, so AttributeError; in the handler `data` is unbound
         THEN Raise("UnboundLocalError")
         ELSE IF response.kind = "array"
         \* **data of a non-mapping, then data["uri"] of it
         THEN Raise("TypeError")
         ELSE LET data == response.data
                  first == IF "status_code" \in DOMAIN data
                           THEN Raise("TypeError")    \* status_code given twice
                           ELSE WikiApiError(response.status_code, data)
              IN  IF "uri" \in DOMAIN data THEN first ELSE Raise("KeyError")
    ELSE IF response.kind # "empty" THEN Return(Text(response)) ELSE Return(None)

\* json.loads(text)["items"] as the operations use it
JsonItems(text) ==
    IF text = None THEN Raise("TypeError")                   \* json.loads(None)
    ELSE IF text.kind = "text" THEN Raise("JSONDecodeError")
    ELSE IF text.kind = "array" THEN Raise("TypeError")      \* list["items"]
    ELSE Return(text.items)

----------------------------------------------------------------------------
(* What one public call did: the requests it sent, the responses it read   *)
(* and what it returned or raised.                                         *)

\* a call that raised before it sent anything
Local(outcome) == [requests |-> <<>>, log |-> <<>>, result |-> outcome]
\* a call that sent one request and read its response
Fetched(cfg, url, response, outcome) ==
    [requests |-> <<Request(cfg, url)>>, log |-> <<response>>, result |-> outcome]

\* _get followed by json.loads(...)["items"]
GetItems(response) ==
    LET got == ReturnResponse(response) IN
    IF got.kind = "raise" THEN got ELSE JsonItems(got.value)

\* json.loads(self._get(url))["items"][0]["articles"]
GetArticles(response) ==
    LET items == GetItems(response) IN
    IF items.kind = "raise" THEN items
    ELSE IF items.value = <<>> THEN Raise("IndexError")
    ELSE Return(items.value[1].articles)

\* the segments as str() gives them, no zfill
DayUrlUnpadded(cfg, year, month, day) ==
    [GetApiUrl(cfg, "/pageviews/top", <<>>, "", <<>>, <<>>)
        EXCEPT !.date = <<Str(year), Str(month), Str(day)>>]

\* the URL get_most_viewed_for_day builds
DayUrl(cfg, year, month, day) ==
    [GetApiUrl(cfg, "/pageviews/top", <<>>, "", <<>>, <<>>)
        EXCEPT !.date = <<Str(year), ZFill(Str(month), 2), ZFill(Str(day), 2)>>]

GetMostViewedForDay(cfg, year, month, day, response) ==
    Fetched(cfg, DayUrl(cfg, year, month, day), response, GetArticles(response))

\* the limit get_most_viewed_for_week and get_most_viewed_for_month default to
DefaultLimit == 999

\* no range check at all
MonthUnchecked(year, month) == FALSE

\* date(year, month, 1) of get_most_viewed_for_month and
\* get_most_article_views_in_month: does it raise ValueError?
MonthRejected(year, month) == ~ValidDate(year, month, 1)

\* the URL get_most_viewed_for_month builds
MonthUrl(cfg, year, month) ==
    [GetApiUrl(cfg, "/pageviews/top", <<>>, "", <<>>, <<>>)
        EXCEPT !.date = <<Str(year), Str(month)>>, !.tail = "all-days"]

GetMostViewedForMonth(cfg, year, month, limit, response) ==
    IF MonthRejected(year, month) THEN Local(Raise("ValueError"))
    ELSE LET articles == GetArticles(response) IN
         Fetched(cfg, MonthUrl(cfg, year, month), response,
                 IF articles.kind = "raise" THEN articles
                 ELSE Return(Take(articles.value, limit)))

RECURSIVE SumViews(_)
\* sum(day["views"] for day in daily_views)
SumViews(items) == IF items = <<>> THEN 0 ELSE items[1].views + SumViews(Tail(items))

\* a week of eight days
WeekEndOff(start) == AddDays(start, 7)

\* week_start + timedelta(days=6)
WeekEnd(start) == AddDays(start, 6)

GetArticleViewsForWeek(cfg, title, start_date, response) ==
    LET article == EncodeArticle(title)
        parsed == StrptimeYmd(start_date)
    IN  IF ~parsed.ok THEN Local(Raise("ValueError"))
        ELSE LET url == GetApiUrl(cfg, "/pageviews/per-article", article, "daily",
                                  parsed.value, WeekEnd(parsed.value))
                 items == GetItems(response)
             IN  Fetched(cfg, url, response,
                         IF items.kind = "raise" THEN items
                         ELSE Return(SumViews(items.value)))

GetArticleViewsForMonth(cfg, title, start_date, end_date, response) ==
    LET article == EncodeArticle(title)
        first == StrptimeYmd(start_date)
        last == StrptimeYmd(end_date)
    IN  IF ~first.ok \/ ~last.ok THEN Local(Raise("ValueError"))
        ELSE LET url == GetApiUrl(cfg, "/pageviews/per-article", article, "monthly",
                                  first.value, last.value)
                 items == GetItems(response)
             IN  Fetched(cfg, url, response,
                         IF items.kind = "raise" THEN items
                         ELSE IF items.value = <<>> THEN Raise("IndexError")
                         ELSE Return(items.value[1].views))

\* a sort that is not stable: x goes before the items of equal views
InsertBeforeEqual(done, x) ==
    LET n == Cardinality({i \in 1..Len(done) : done[i].views > x.views})
    IN  SubSeq(done, 1, n) \o <<x>> \o SubSeq(done, n + 1, Len(done))

\* where sorted() puts x among the already sorted items: after every item
\* whose views are at least x's (the sort is stable, reverse=True included)
InsertByViews(done, x) ==
    LET n == Cardinality({i \in 1..Len(done) : done[i].views >= x.views})
    IN  SubSeq(done, 1, n) \o <<x>> \o SubSeq(done, n + 1, Len(done))

RECURSIVE SortedByViews(_)
\* sorted(daily_views, key=lambda x: x["views"], reverse=True)
SortedByViews(items) ==
    IF items = <<>> THEN <<>>
    ELSE InsertByViews(SortedByViews(SubSeq(items, 1, Len(items) - 1)), items[Len(items)])

\* _get_pageviews
GetPageviews(cfg, article, start, end, response) ==
    LET url == GetApiUrl(cfg, "/pageviews/per-article", article, "daily", start, end)
        items == GetItems(response)
    IN  Fetched(cfg, url, response,
                IF items.kind = "raise" THEN items
                ELSE IF items.value = <<>> THEN Raise("IndexError")
                ELSE LET most_views == SortedByViews(items.value)[1]
                         when == StrptimeYjHM(most_views.timestamp)
                     IN  IF ~when.ok THEN Raise("ValueError")
                         ELSE Return([date |-> when.value, views |-> most_views.views]))

GetMostArticleViewsInMonth(cfg, title, year, month, response) ==
    LET article == EncodeArticle(title) IN
    IF MonthRejected(year, month) THEN Local(Raise("ValueError"))
    ELSE GetPageviews(cfg, article, Date(year, month, 1),
                      Date(year, month, DaysInMonth(year, month)), response)

GetMostArticleViewsInWeek(cfg, title, start_date, response) ==
    LET article == EncodeArticle(title)
        parsed == StrptimeYmd(start_date)
    IN  IF ~parsed.ok THEN Local(Raise("ValueError"))
        ELSE GetPageviews(cfg, article, parsed.value, WeekEnd(parsed.value), response)

----------------------------------------------------------------------------
(* get_most_viewed_for_week, step by step: one GET per turn of the loop *)

\* dict.update instead of Counter.update: the count is replaced
CounterOverwrite(c, article, views) ==
    IF \E i \in 1..Len(c) : c[i].article = article
    THEN [i \in 1..Len(c) |-> IF c[i].article = article
                               THEN [article |-> article, views |-> views] ELSE c[i]]
    ELSE Append(c, [article |-> article, views |-> views])

\* the index of article among the counter's keys, 0 when it is no key
KeyIndex(c, article) ==
    IF \E i \in 1..Len(c) : c[i].article = article
    THEN CHOOSE i \in 1..Len(c) : c[i].article = article
    ELSE 0

\* counter.update({article: views}): add to the key's count; a new key goes last
CounterUpdate(c, article, views) ==
    LET i == KeyIndex(c, article) IN
    IF i = 0 THEN Append(c, [article |-> article, views |-> views])
    ELSE [c EXCEPT ![i].views = c[i].views + views]

RECURSIVE CountDay(_, _)
\* for article in articles: counter.update(...)
CountDay(c, articles) ==
    IF articles = <<>> THEN c
    ELSE CountDay(CounterUpdate(c, articles[1].article, articles[1].views), Tail(articles))

\* the ranking by views, most first, as counter.most_common() would give it
RankByViews(c, limit) ==
    LET byViews == SortedByViews(c) IN
    Take([i \in 1..Len(c) |-> [article |-> byViews[i].article, views |-> byViews[i].views,
                                rank |-> i]], limit)

\* the list comprehension over enumerate(counter.items(), start=1), then [:limit]
RankResult(c, limit) ==
    Take([i \in 1..Len(c) |-> [article |-> c[i].article, views |-> c[i].views, rank |-> i]],
         limit)

\* a counter shared by the calls: what the call before left in it
KeptCounter == counter

\* counter = Counter()
FreshCounter == <<>>

\* a call that has not returned yet
Pending ==
    [kind |-> "none", exc |-> "", status_code |-> 0, data |-> NoData, value |-> <<>>]

\* no datetime: the loop's variables outside a weekly call
NoDate == DateTime(0, 0, 0, 0, 0)

\* a loop that swallows the day's exception and goes on to the next day
AfterDaySkipping(day, c, start) ==
    [pc |-> "week", result |-> Pending,
     counter |-> IF day.kind = "raise" THEN c ELSE CountDay(c, day.value),
     week_start |-> AddDays(start, 1)]

\* the loop's turn once get_most_viewed_for_day(...) has returned or raised:
\* an exception leaves the loop and the call, a list is counted and the date
\* moves on by one day
AfterDay(day, c, start) ==
    IF day.kind = "raise"
    THEN [pc |-> "done", result |-> day, counter |-> c, week_start |-> start]
    ELSE [pc |-> "week", result |-> Pending, counter |-> CountDay(c, day.value),
          week_start |-> AddDays(start, 1)]

\* get_most_viewed_for_week up to its loop: the two dates and the counter
WeekEntry(start_date) ==
    LET parsed == StrptimeYmd(start_date) IN
    IF ~parsed.ok
    THEN [pc |-> "done", result |-> Raise("ValueError"), requests |-> <<>>, log |-> <<>>,
          counter |-> <<>>, week_start |-> NoDate, week_end |-> NoDate]
    ELSE [pc |-> "week", result |-> Pending, requests |-> <<>>, log |-> <<>>,
          counter |-> FreshCounter, week_start |-> parsed.value,
          week_end |-> WeekEnd(parsed.value)]

\* one turn of the loop, the day's GET answered by response
WeekTurn(cfg, w, response) ==
    LET call == GetMostViewedForDay(cfg, w.week_start.year, w.week_start.month,
                                    w.week_start.day, response)
        next == AfterDay(call.result, w.counter, w.week_start)
    IN  [pc |-> next.pc, result |-> next.result,
         requests |-> w.requests \o call.requests, log |-> w.log \o call.log,
         counter |-> next.counter, week_start |-> next.week_start,
         week_end |-> w.week_end]

\* after the loop: the ranking is built and returned
WeekExit(w, limit) ==
    [w EXCEPT !.pc = "done", !.result = Return(RankResult(w.counter, limit))]

RECURSIVE WeekRun(_, _, _, _)
\* the whole call from w on, its GETs answered by responses in turn
WeekRun(cfg, w, limit, responses) ==
    IF w.pc # "week" THEN w
    ELSE IF ~DateLeq(w.week_start, w.week_end) THEN WeekExit(w, limit)
    ELSE IF responses = <<>> THEN w
    ELSE WeekRun(cfg, WeekTurn(cfg, w, Head(responses)), limit, Tail(responses))

----------------------------------------------------------------------------
(* The callers' arguments and the service's answers, from small sets *)

Years == {2022, 2024}
\* months and days, in range and out of range
Months == {0, 2, 12, 13}
Days == {0, 1, 29, 32}
Limits == {1, DefaultLimit}

\* start dates as text: a week over the end of a year, a week over a
\* leap day, and a text that is no date
StartDates == { <<2,0,2,2,1,2,2,9>>, <<2,0,2,4,0,2,2,6>>, <<2,0,2,2,1,3,0,1>> }
EndDates == { <<2,0,2,2,1,2,3,1>> }

Titles == { <<"B", " ", "C">>, <<"A", "e'">> }

\* the article names of the daily listings
Names == {"A", "B"}

\* the error bodies of the service and of what stands before it
ErrorResponses ==
    { Response(FALSE, 404, "object",
               [uri |-> "/metrics", detail |-> "no data for those date(s)"], <<>>),
      Response(FALSE, 404, "object", [detail |-> "not found"], <<>>),
      Response(FALSE, 400, "object", [uri |-> "/metrics", status_code |-> "400"], <<>>),
      Response(FALSE, 500, "array", NoData, <<>>),
      Response(FALSE, 503, "text", NoData, <<>>),
      Response(FALSE, 502, "empty", NoData, <<>>) }

\* the failures a day of the weekly loop may meet: the service's rejection,
\* an error page that is no JSON, a 200 without a body
WeekFailures ==
    { r \in ErrorResponses : r.kind = "text" \/ (r.kind = "object" /\ r.status_code = 404) }
        \cup { Response(TRUE, 200, "empty", NoData, <<>>) }

\* 2xx responses whose body is no data body
BrokenResponses ==
    { Response(TRUE, 200, "empty", NoData, <<>>),
      Response(TRUE, 200, "text", NoData, <<>>) }

Ok(items) == Response(TRUE, 200, "object", NoData, items)

\* the views of a listing's entry: the least and the most
ListingViews == {1, MaxViews}

\* the listings of at most n articles, ranked by position
Listings(n) ==
    UNION { { [i \in 1..k |-> [article |-> f[i][1], views |-> f[i][2], rank |-> i]] :
              f \in [1..k -> Names \X ListingViews] } : k \in 0..n }

TopResponses(n) == { Ok(<<[articles |-> l]>>) : l \in Listings(n) }

\* the most articles a monthly listing holds
ApiMaxArticles == 1000

\* the monthly listing of n articles
MonthListing(n) ==
    [i \in 1..n |-> [article |-> ToString(i), views |-> n + 1 - i, rank |-> i]]

MonthSizes == {0, 1, MaxEntries, ApiMaxArticles - 2, ApiMaxArticles - 1, ApiMaxArticles}

MonthResponses == { Ok(<<[articles |-> MonthListing(n)]>>) : n \in MonthSizes }

\* the daily series over some of the given days
Series(days) ==
    UNION { { [i \in 1..k |-> [timestamp |-> Timestamp(f[i][1].year, f[i][1].month, f[i][1].day),
                                views |-> f[i][2]]] :
              f \in [1..k -> days \X (0..MaxViews)] } : k \in 0..MaxSeries }

SeriesResponses(days) == { Ok(l) : l \in Series(days) }

\* the days a series is drawn from: the first two and the last of the range
RangeDays(start, end) == {start, AddDays(start, 1), end}
\* of a month: the 11th, the 22nd and the last
MonthDays(y, m) == { Date(y, m, d) : d \in {11, 22, DaysInMonth(y, m)} }

----------------------------------------------------------------------------
(* The state machine.  A call starts when the client is idle.  Once it is  *)
(* done the caller either drops what it got (Idle) or repeats the call:    *)
(* the same operation and arguments, answered by the same responses; prev  *)
(* then holds what the first of the two read and returned.  A first weekly *)
(* call is followed GET by GET, a repeated one is taken in one step.       *)

NoPrev == [on |-> FALSE, log |-> <<>>, result |-> Pending]

Init ==
    /\ config = NewClient
    /\ pc = "idle"
    /\ op = "none"
    /\ args = <<>>
    /\ requests = <<>>
    /\ log = <<>>
    /\ counter = <<>>
    /\ week_start = NoDate
    /\ week_end = NoDate
    /\ result = Pending
    /\ prev = NoPrev

\* the call of operation o with arguments a begins; rep: it repeats the last call
Begin(o, a, rep) ==
    /\ IF rep THEN pc = "done" /\ op = o /\ args = a ELSE pc = "idle"
    /\ prev' = IF rep THEN [on |-> TRUE, log |-> log, result |-> result] ELSE NoPrev
    /\ op' = o
    /\ args' = a
    /\ UNCHANGED config

\* the responses the i-th request of the call may get, all being the set of
\* what the service may answer
Answers(i, all) ==
    IF prev'.on /\ i <= Len(prev'.log) THEN {prev'.log[i]} ELSE all

\* a call made of one request returns
Finish(call) ==
    /\ requests' = call.requests
    /\ log' = call.log
    /\ result' = call.result
    /\ pc' = "done"
    /\ UNCHANGED <<counter, week_start, week_end>>

\* what the service may answer for a day: it rejects a day that does not exist
DayAnswers(year, month, day) ==
    IF ValidDate(year, month, day)
    THEN TopResponses(MaxEntries) \cup ErrorResponses \cup BrokenResponses
    ELSE ErrorResponses

CallMostViewedForDay ==
    \E rep \in BOOLEAN, year \in Years, month \in Months, day \in Days :
        /\ Begin("get_most_viewed_for_day", [year |-> year, month |-> month, day |-> day], rep)
        /\ \E response \in Answers(1, DayAnswers(year, month, day)) :
               Finish(GetMostViewedForDay(config, year, month, day, response))

CallMostViewedForMonth ==
    \E rep \in BOOLEAN, year \in Years, month \in Months, limit \in Limits :
        /\ Begin("get_most_viewed_for_month", [year |-> year, month |-> month, limit |-> limit], rep)
        /\ \E response \in Answers(1, MonthResponses \cup ErrorResponses \cup BrokenResponses) :
               Finish(GetMostViewedForMonth(config, year, month, limit, response))

\* what the service may answer for a per-article range
RangeAnswers(start_date) ==
    LET parsed == StrptimeYmd(start_date) IN
    ErrorResponses \cup BrokenResponses \cup
        (IF parsed.ok THEN SeriesResponses(RangeDays(parsed.value, WeekEnd(parsed.value)))
         ELSE {})

CallArticleViewsForWeek ==
    \E rep \in BOOLEAN, title \in Titles, start_date \in StartDates :
        /\ Begin("get_article_views_for_week", [article |-> title, start_date |-> start_date], rep)
        /\ \E response \in Answers(1, RangeAnswers(start_date)) :
               Finish(GetArticleViewsForWeek(config, title, start_date, response))

CallArticleViewsForMonth ==
    \E rep \in BOOLEAN, title \in Titles, start_date \in StartDates, end_date \in EndDates :
        /\ Begin("get_article_views_for_month",
                 [article |-> title, start_date |-> start_date, end_date |-> end_date], rep)
        /\ \E response \in Answers(1, RangeAnswers(start_date)) :
               Finish(GetArticleViewsForMonth(config, title, start_date, end_date, response))

CallMostArticleViewsInMonth ==
    \E rep \in BOOLEAN, title \in Titles, year \in Years, month \in Months :
        /\ Begin("get_most_article_views_in_month",
                 [article |-> title, year |-> year, month |-> month], rep)
        /\ \E response \in Answers(1, ErrorResponses \cup BrokenResponses \cup
                                      SeriesResponses(MonthDays(year, month))) :
               Finish(GetMostArticleViewsInMonth(config, title, year, month, response))

CallMostArticleViewsInWeek ==
    \E rep \in BOOLEAN, title \in Titles, start_date \in StartDates :
        /\ Begin("get_most_article_views_in_week", [article |-> title, start_date |-> start_date], rep)
        /\ \E response \in Answers(1, RangeAnswers(start_date)) :
               Finish(GetMostArticleViewsInWeek(config, title, start_date, response))

\* the weekly call's variables become those of w
Becomes(w) ==
    \E now \in {w} :
        /\ pc' = now.pc
        /\ result' = now.result
        /\ requests' = now.requests
        /\ log' = now.log
        /\ counter' = now.counter
        /\ week_start' = now.week_start
        /\ week_end' = now.week_end

\* the weekly call as it stands
Week ==
    [pc |-> pc, result |-> result, requests |-> requests, log |-> log,
     counter |-> counter, week_start |-> week_start, week_end |-> week_end]

\* get_most_viewed_for_week is called and reaches its loop
WeekBegin ==
    \E start_date \in StartDates, limit \in Limits :
        /\ Begin("get_most_viewed_for_week", [start_date |-> start_date, limit |-> limit], FALSE)
        /\ Becomes(WeekEntry(start_date))

\* the entries of the listings read so far
RECURSIVE EntriesRead(_)
EntriesRead(responses) ==
    IF responses = <<>> THEN 0
    ELSE EntriesRead(Tail(responses)) +
         (IF responses[1].items = <<>> THEN 0 ELSE Len(responses[1].items[1].articles))

\* one turn of the loop: while week_start <= week_end
WeekDay ==
    /\ pc = "week"
    /\ DateLeq(week_start, week_end)
    /\ \E response \in TopResponses(MaxEntries - EntriesRead(log)) \cup WeekFailures :
           Becomes(WeekTurn(config, Week, response))
    /\ UNCHANGED <<config, op, args, prev>>

\* the loop is over: the ranking is built and returned
WeekReturn ==
    /\ pc = "week"
    /\ ~DateLeq(week_start, week_end)
    /\ Becomes(WeekExit(Week, args.limit))
    /\ UNCHANGED <<config, op, args, prev>>

\* the weekly call just done is made again and gets the same responses
WeekAgain ==
    /\ op = "get_most_viewed_for_week"
    /\ Begin(op, args, TRUE)
    /\ Becomes(WeekRun(config, WeekEntry(args.start_date), args.limit, log))

\* the caller is done with the call: its frame and its result are gone
Idle ==
    /\ pc = "done"
    /\ pc' = "idle"
    /\ op' = "none"
    /\ args' = <<>>
    /\ requests' = <<>>
    /\ log' = <<>>
    /\ counter' = <<>>
    /\ week_start' = NoDate
    /\ week_end' = NoDate
    /\ result' = Pending
    /\ prev' = NoPrev
    /\ UNCHANGED config

Next ==
    \/ CallMostViewedForDay
    \/ CallMostViewedForMonth
    \/ CallArticleViewsForWeek
    \/ CallArticleViewsForMonth
    \/ CallMostArticleViewsInMonth
    \/ CallMostArticleViewsInWeek
    \/ WeekBegin
    \/ WeekDay
    \/ WeekReturn
    \/ WeekAgain
    \/ Idle

Spec == Init /\ [][Next]_vars

\* A client that makes weekly calls only, each followed from GET to GET.
WeekNext == WeekBegin \/ WeekDay \/ WeekReturn \/ Idle

\* The weekly call is synchronous: inside get_most_viewed_for_week the blocking
\* GET of the day comes back and the loop goes on, and after the loop the
\* method returns.
WeekSpec == Init /\ [][WeekNext]_vars /\ WF_vars(WeekDay) /\ WF_vars(WeekReturn)

----------------------------------------------------------------------------
(* Properties *)

Last(seq) == seq[Len(seq)]

\* the call under way or done is the weekly ranking
InWeek == op = "get_most_viewed_for_week"

\* a call came back with a value
Returned == pc = "done" /\ result.kind = "return"

\* the listings of the days read so far, one per successful day
DayListings ==
    [i \in 1..Len(log) |->
        IF log[i].ok /\ log[i].kind = "object" /\ log[i].items # <<>>
        THEN log[i].items[1].articles ELSE <<>>]

RECURSIVE Flatten(_)
\* the listings end to end
Flatten(listings) ==
    IF listings = <<>> THEN <<>> ELSE listings[1] \o Flatten(Tail(listings))

\* the views of article a over the entries, taken from the back
RECURSIVE ViewsOf(_, _, _)
ViewsOf(entries, a, n) ==
    IF n = 0 THEN 0
    ELSE ViewsOf(entries, a, n - 1) + (IF entries[n].article = a THEN entries[n].views ELSE 0)

\* the positions at which an article shows for the first time
FirstShows(entries) ==
    { i \in 1..Len(entries) : \A j \in 1..(i - 1) : entries[j].article # entries[i].article }

\* the articles in the order in which they show first
FirstSeen(entries) ==
    LET at == FirstShows(entries)
        nth(k) == CHOOSE i \in at : Cardinality({j \in at : j < i}) = k - 1
    IN  [k \in 1..Cardinality(at) |-> entries[nth(k)].article]

Min(a, b) == IF a < b THEN a ELSE b

\* C1: whenever a call read a response that is no success, the call is over
\* and raised WikiApiError with the response's status code and, when the body
\* is a JSON object, that object as its data.
C1_NonSuccessRaisesApiError ==
    \A i \in 1..Len(log) :
        ~log[i].ok =>
            /\ pc = "done"
            /\ result.kind = "raise"
            /\ result.exc = "WikiApiError"
            /\ result.status_code = log[i].status_code
            /\ (log[i].kind = "object" => result.data = log[i].data)

\* C2: when the weekly ranking returns, every entry's views are the sum of
\* the article's views over the listings of the days read, and every article
\* of those listings has exactly one entry in the ranking before it is cut
\* to limit.
C2_WeekViewsAreSums ==
    (InWeek /\ Returned) =>
        LET entries == Flatten(DayListings)
            full == RankResult(counter, Len(counter))
        IN  /\ \A i \in 1..Len(result.value) :
                  result.value[i].views
                      = ViewsOf(entries, result.value[i].article, Len(entries))
            /\ \A i \in 1..Len(entries) :
                  Cardinality({k \in 1..Len(full) : full[k].article = entries[i].article}) = 1
            /\ \A k \in 1..Len(full) :
                  full[k].views = ViewsOf(entries, full[k].article, Len(entries))
            /\ result.value = Take(full, args.limit)

\* a ranking returned with an article whose views came from two listings
C2_Witness ==
    /\ InWeek /\ Returned
    /\ \E i, j \in 1..Len(log) :
          /\ i < j
          /\ \E x \in 1..Len(DayListings[i]), y \in 1..Len(DayListings[j]) :
                /\ DayListings[i][x].article = DayListings[j][y].article
                /\ \E k \in 1..Len(result.value) :
                      /\ result.value[k].article = DayListings[i][x].article
                      /\ result.value[k].views
                            = DayListings[i][x].views + DayListings[j][y].views

Failing(response) == ~response.ok \/ response.kind # "object" \/ response.items = <<>>

\* C4: in the weekly ranking a failed day is the last one asked for: the
\* call is over, it raised what that day's request raised, and it sent one
\* request per day up to that day, none of them twice.
C4_WeekFailsAtFirstFailure ==
    InWeek =>
        \A i \in 1..Len(log) :
            Failing(log[i]) =>
                /\ pc = "done"
                /\ i = Len(log)
                /\ Len(requests) = i
                /\ \A j, k \in 1..Len(requests) : j # k => requests[j] # requests[k]
                /\ result.kind = "raise"
                /\ result = GetArticles(log[i])

\* a weekly call that failed on a day after the first, with views counted
C4_Witness ==
    /\ InWeek
    /\ pc = "done"
    /\ Len(log) \in 2..6
    /\ Failing(Last(log))
    /\ counter # <<>>
    /\ result.kind = "raise"
InPeakMonth == op = "get_most_article_views_in_month"
InPeakWeek == op = "get_most_article_views_in_week"

\* the call read a data body: the items of its one response
Items == log[1].items

\* C5: the date get_most_article_views_in_month returns is a day of the
\* month asked for, and it is the day some item of the series with the
\* returned views is stamped with.
C5_PeakDateInMonth ==
    (InPeakMonth /\ Returned) =>
        LET when == result.value.date IN
        /\ when.year = args.year
        /\ when.month = args.month
        /\ when.day \in 1..DaysInMonth(args.year, args.month)
        /\ \E i \in 1..Len(Items) :
              /\ Items[i].views = result.value.views
              /\ Items[i].timestamp = Timestamp(when.year, when.month, when.day)

\* C6: with the default limit get_most_viewed_for_month returns every
\* article of the response, in the response's order.
C6_MonthDefaultReturnsAll ==
    (op = "get_most_viewed_for_month" /\ Returned /\ args.limit = DefaultLimit) =>
        result.value = log[1].items[1].articles

\* the operations that take year, month and day as integers
TakesMonth ==
    op \in {"get_most_viewed_for_day", "get_most_viewed_for_month",
            "get_most_article_views_in_month"}

\* the month given is no month, or the day given no day of it
OutOfRange ==
    \/ args.month \notin 1..12
    \/ op = "get_most_viewed_for_day" /\ args.day \notin 1..DaysInMonth(args.year, args.month)

\* C7 as stated: with a month or day out of range none of the three
\* operations raises a local error; each sends its request.
C7_NoLocalValidation ==
    (TakesMonth /\ pc = "done" /\ OutOfRange) =>
        /\ Len(requests) = 1
        /\ result.exc # "ValueError"

\* C7 as amended: get_most_viewed_for_day checks nothing and sends its
\* request with the year as given and the month and day padded to two
\* digits, and a rejection comes back as what the unwrapper raises for it;
\* get_most_viewed_for_month and get_most_article_views_in_month send their
\* request exactly when the month is in 1..12 and otherwise raise ValueError
\* without sending anything.
C7_OnlyDayForwardsUnchecked ==
    (TakesMonth /\ pc = "done") =>
        IF op = "get_most_viewed_for_day"
        THEN /\ Len(requests) = 1
             /\ requests[1].url.date
                    = <<Str(args.year), ZFill(Str(args.month), 2), ZFill(Str(args.day), 2)>>
             /\ Num(requests[1].url.date[2]) = args.month
             /\ Num(requests[1].url.date[3]) = args.day
             /\ result.exc # "ValueError"
             /\ (~log[1].ok => result.kind = "raise" /\ result = ReturnResponse(log[1]))
        ELSE IF args.month \in 1..12
        THEN /\ Len(requests) = 1
             /\ IF op = "get_most_viewed_for_month"
                THEN Num(requests[1].url.date[2]) = args.month
                ELSE Num(SubSeq(requests[1].url.start, 5, 6)) = args.month
        ELSE requests = <<>> /\ result.kind = "raise" /\ result.exc = "ValueError"

\* a day that is no day was sent on and the service's rejection raised
C7_Witness ==
    /\ op = "get_most_viewed_for_day"
    /\ pc = "done"
    /\ args.month = 13 /\ args.day = 32
    /\ Len(requests) = 1
    /\ requests[1].url.date[2] = <<1, 3>> /\ requests[1].url.date[3] = <<3, 2>>
    /\ ~log[1].ok
    /\ result.exc = "WikiApiError"

\* the sum of the views of the first n items
RECURSIVE TotalViews(_, _)
TotalViews(items, n) == IF n = 0 THEN 0 ELSE TotalViews(items, n - 1) + items[n].views

\* C8: get_article_views_for_week with a valid start date sends exactly one
\* request, per-article and daily, from the start date to six days after it,
\* and on success returns the sum of the views of the response's items.
C8_ArticleWeekOneRequest ==
    (op = "get_article_views_for_week" /\ pc = "done" /\ StrptimeYmd(args.start_date).ok) =>
        LET start == StrptimeYmd(args.start_date).value IN
        /\ Len(requests) = 1
        /\ Len(log) = 1
        /\ requests[1].url.endpoint = "/pageviews/per-article"
        /\ requests[1].url.granularity = "daily"
        /\ requests[1].url.article = EncodeArticle(args.article)
        /\ requests[1].url.start = args.start_date
        /\ requests[1].url.end = StrftimeYmd(AddDays(start, 6))
        /\ (log[1].ok /\ log[1].kind = "object") =>
              /\ result.kind = "return"
              /\ result.value = TotalViews(Items, Len(Items))

\* a week over the end of the year whose two items sum to more than either
C8_Witness ==
    /\ op = "get_article_views_for_week"
    /\ Returned
    /\ args.start_date = <<2, 0, 2, 2, 1, 2, 2, 9>>
    /\ requests[1].url.end = <<2, 0, 2, 3, 0, 1, 0, 4>>
    /\ Len(Items) = 2
    /\ Items[1].views > 0 /\ Items[2].views > 0
    /\ result.value = Items[1].views + Items[2].views

\* C9: the client's configuration is what the constructor set, and a call
\* repeated with the same arguments and answered by the same responses
\* returns or raises what it did the first time.
C9_ConfigKeptAndCallsRepeatable ==
    /\ config = NewClient
    /\ (pc = "done" /\ prev.on) => (log = prev.log /\ result = prev.result)

\* a weekly ranking with views in it, returned a second time
C9_Witness ==
    /\ InWeek /\ Returned
    /\ prev.on
    /\ Len(result.value) >= 1
    /\ result.value[1].views >= 1
    /\ config.headers.UserAgent = "Sarah Duve <info@example.com>"

\* the first position among the items that holds the most views
FirstMax(items) ==
    CHOOSE i \in 1..Len(items) :
        /\ \A j \in 1..Len(items) : items[j].views <= items[i].views
        /\ \A j \in 1..(i - 1) : items[j].views < items[i].views

\* C10: the peak-day operations return the most views of the series, and
\* the date they return is read from the timestamp of the first item that
\* holds the most views.
C10_PeakIsFirstMaximum ==
    ((InPeakMonth \/ InPeakWeek) /\ Returned) =>
        LET i == FirstMax(Items) IN
        /\ result.value.views = Items[i].views
        /\ \A j \in 1..Len(Items) : Items[j].views <= result.value.views
        /\ result.value.date = StrptimeYjHM(Items[i].timestamp).value

\* a series whose two items tie for the most views on different days
C10_Witness ==
    /\ InPeakMonth /\ Returned
    /\ Len(Items) = 2
    /\ Items[1].views = Items[2].views
    /\ Items[1].timestamp # Items[2].timestamp
    /\ result.value.date = StrptimeYjHM(Items[1].timestamp).value
    /\ result.value.date # StrptimeYjHM(Items[2].timestamp).value
\* the seven days from a start date on, as the path segments year, month, day
ExpectedWeek(start_date) ==
    IF start_date = <<2, 0, 2, 2, 1, 2, 2, 9>>
    THEN << <<<<2,0,2,2>>, <<1,2>>, <<2,9>>>>, <<<<2,0,2,2>>, <<1,2>>, <<3,0>>>>,
            <<<<2,0,2,2>>, <<1,2>>, <<3,1>>>>, <<<<2,0,2,3>>, <<0,1>>, <<0,1>>>>,
            <<<<2,0,2,3>>, <<0,1>>, <<0,2>>>>, <<<<2,0,2,3>>, <<0,1>>, <<0,3>>>>,
            <<<<2,0,2,3>>, <<0,1>>, <<0,4>>>> >>
    ELSE << <<<<2,0,2,4>>, <<0,2>>, <<2,6>>>>, <<<<2,0,2,4>>, <<0,2>>, <<2,7>>>>,
            <<<<2,0,2,4>>, <<0,2>>, <<2,8>>>>, <<<<2,0,2,4>>, <<0,2>>, <<2,9>>>>,
            <<<<2,0,2,4>>, <<0,3>>, <<0,1>>>>, <<<<2,0,2,4>>, <<0,3>>, <<0,2>>>>,
            <<<<2,0,2,4>>, <<0,3>>, <<0,3>>>> >>

\* a weekly call with a valid start date is under way or over
WeekCalled == InWeek /\ pc \in {"week", "done"} /\ StrptimeYmd(args.start_date).ok

\* the requests of the weekly call so far are those of the first days of its
\* week, in order, each a top-articles request with month and day in two
\* digits, each answered before the next; the loop runs only while no day
\* failed, and a call over without a failed day sent seven and returned
WeekRequestsInOrder ==
    WeekCalled =>
        LET days == ExpectedWeek(args.start_date) IN
        /\ Len(requests) <= 7
        /\ Len(log) = Len(requests)
        /\ \A i \in 1..Len(requests) :
              /\ requests[i].url.endpoint = "/pageviews/top"
              /\ requests[i].url.article = <<>>
              /\ requests[i].url.tail = ""
              /\ requests[i].url.date = days[i]
              /\ Len(requests[i].url.date[2]) = 2
              /\ Len(requests[i].url.date[3]) = 2
        /\ (pc = "week" => \A i \in 1..Len(log) : ~Failing(log[i]))
        /\ (pc = "done" /\ \A i \in 1..Len(log) : ~Failing(log[i])) =>
              (Len(requests) = 7 /\ result.kind = "return")

\* C11: a weekly call with a valid start date asks for the days start,
\* start + 1, ... in order, one request per day with two-digit month and day
\* segments, seven of them when none fails, and the call comes to its end.
C11_SevenDaysThenDone ==
    /\ []WeekRequestsInOrder
    /\ (InWeek /\ pc = "week") ~> (InWeek /\ pc = "done")

\* a week over the end of the year that returned
C11_Witness ==
    /\ InWeek /\ Returned
    /\ args.start_date = <<2, 0, 2, 2, 1, 2, 2, 9>>
    /\ Len(requests) = 7
    /\ requests[3].url.date = << <<2,0,2,2>>, <<1,2>>, <<3,1>> >>
    /\ requests[4].url.date = << <<2,0,2,3>>, <<0,1>>, <<0,1>> >>
    /\ requests[7].url.date = << <<2,0,2,3>>, <<0,1>>, <<0,4>> >>

====
